---- MODULE Spec2Model ----
(***************************************************************************)
(* Model of src/app.py: the metric derivation (calculate_analytics) and    *)
(* the dashboard tabs that read its result (profile lookup, comparison,    *)
(* replacement suggester, match-day win probability).                      *)
(*                                                                         *)
(* Arithmetic is exact, in fixed point.  The units are:                    *)
(*   sub-metrics, age, contract_end_year, Years_Left : 1                   *)
(*   Tech_Score, Tact_Score, Phys_Score, Ment_Score  : 1/10                *)
(*   TPI                                             : 1/1000              *)
(*   Transfer_Prob                                   : 1/1000000           *)
(*   win_prob                                        : 1/1000 of a percent *)
(* A mean is kept as the exact fraction num/den, or NaN.                   *)
(***************************************************************************)
EXTENDS Integers, Sequences, FiniteSets, TLC

VARIABLES
    pc,         \* position of the script run
    csv,        \* the table as pd.read_csv returned it (what the file holds)
    df_raw,     \* content of the DataFrame object bound to df_raw (and, after line 74, to df)
    team_avg,   \* the dict returned by the latest call of calculate_analytics
    out1,       \* what the first call of calculate_analytics returned
    target,     \* tab 4: the selected expiring player
    sugs,       \* tab 4: the suggested rows, as row positions of df
    xi_avg,     \* tab 5: mean TPI of the starting XI
    opp_avg,    \* tab 5: mean TPI of the opponent club
    win_prob    \* tab 5: the displayed win probability

vars == <<pc, csv, df_raw, team_avg, out1, target, sugs, xi_avg, opp_avg, win_prob>>

----------------------------------------------------------------------------
(* Bounds of the model *)

MaxRows == 2
MaxSugRows == 5

----------------------------------------------------------------------------
(* Cells *)

\* A cell of a CSV column: a number, a numeric string, a missing value (NaN),
\* or a string that is no number.
Num(n) == [k |-> "num", v |-> n]
Str(n) == [k |-> "str", v |-> n]
NaNCell == [k |-> "nan", v |-> 0]
Txt == [k |-> "txt", v |-> 0]

\* A missing player_name / club (NaN), and the None a selectbox without options returns.
NA == ""

\* pd.to_numeric(x, errors='coerce')
to_numeric(c) ==
    CASE c.k = "num" -> c
      [] c.k = "str" -> Num(c.v)
      [] c.k = "nan" -> NaNCell
      [] c.k = "txt" -> NaNCell

\* fillna with a league-average placeholder in place of the value passed.
fillna_fifty(c, d) == IF c.k = "nan" THEN Num(50) ELSE c

\* Series.fillna(d)
fillna(c, d) == IF c.k = "nan" THEN Num(d) ELSE c

\* A mean: the fraction num/den, or NaN.
NaN == [nan |-> TRUE, num |-> 0, den |-> 1]
Frac(n, d) == [nan |-> FALSE, num |-> n, den |-> d]

\* A name not bound yet.
Unbound == <<>>

----------------------------------------------------------------------------
(* calculate_analytics *)

weights == [Technical |-> 35, Tactical |-> 25, Physical |-> 25, Mental |-> 15]
current_year == 2026

cols == <<"pass_accuracy", "dribble_success", "interceptions", "positioning_rating",
          "sprint_speed", "stamina", "composure", "big_game_impact", "market_value",
          "age", "contract_end_year", "mins_played", "goals", "assists">>

ColSet == {cols[i] : i \in 1..Len(cols)}

NRows(df) == Len(df.rows)

\* df[col] += value where the column exists.
Put_accumulate(r, col, val) ==
    [c \in DOMAIN r \cup {col} |->
        IF c # col THEN r[c] ELSE IF col \in DOMAIN r THEN r[col] + val ELSE val]

\* df[col] = <value computed from each row>: adds the column or overwrites it.
Put(r, col, val) == [c \in DOMAIN r \cup {col} |-> IF c = col THEN val ELSE r[c]]

\* Lines 32-34: every listed column the table has is coerced to numbers, NaN filled with 0.
Coerce(df) ==
    [columns |-> df.columns,
     rows |-> [i \in 1..NRows(df) |->
                 [c \in df.columns |->
                     IF c \in ColSet THEN fillna(to_numeric(df.rows[i][c]), 0)
                     ELSE df.rows[i][c]]]]

\* The two technical weights exchanged.
Tech_Score_swapped(r) == r["pass_accuracy"].v * 4 + r["dribble_success"].v * 6

Tech_Score(r) == r["pass_accuracy"].v * 6 + r["dribble_success"].v * 4
Tact_Score(r) == r["interceptions"].v * 50 + r["positioning_rating"].v * 5
Phys_Score(r) == r["sprint_speed"].v * 20 + r["stamina"].v * 2
Ment_Score(r) == r["composure"].v * 7 + r["big_game_impact"].v * 3
TPI(r) == r["Tech_Score"] * weights.Technical + r["Tact_Score"] * weights.Tactical
          + r["Phys_Score"] * weights.Physical + r["Ment_Score"] * weights.Mental

Min(a, b) == IF a <= b THEN a ELSE b
Max(a, b) == IF a >= b THEN a ELSE b

\* clip without its upper limit.
clip_lower_only(x, lo, hi) == Max(lo, x)

\* Series.clip(lo, hi)
clip(x, lo, hi) == Max(lo, Min(hi, x))

Transfer_Prob(r) == clip(r["TPI"] * 6 + (35 - r["age"].v) * 2 * 10000, 0, 950000)
Years_Left(r) == r["contract_end_year"].v - current_year

\* Lines 37-46 in order: the column each statement assigns and the columns it reads.
Statements ==
    << [col |-> "Tech_Score", reads |-> {"pass_accuracy", "dribble_success"}],
       [col |-> "Tact_Score", reads |-> {"interceptions", "positioning_rating"}],
       [col |-> "Phys_Score", reads |-> {"sprint_speed", "stamina"}],
       [col |-> "Ment_Score", reads |-> {"composure", "big_game_impact"}],
       [col |-> "TPI", reads |-> {"Tech_Score", "Tact_Score", "Phys_Score", "Ment_Score"}],
       [col |-> "Transfer_Prob", reads |-> {"TPI", "age"}],
       [col |-> "Years_Left", reads |-> {"contract_end_year"}] >>

Eval(col, r) ==
    CASE col = "Tech_Score" -> Tech_Score(r)
      [] col = "Tact_Score" -> Tact_Score(r)
      [] col = "Phys_Score" -> Phys_Score(r)
      [] col = "Ment_Score" -> Ment_Score(r)
      [] col = "TPI" -> TPI(r)
      [] col = "Transfer_Prob" -> Transfer_Prob(r)
      [] col = "Years_Left" -> Years_Left(r)

Assign(df, col) ==
    [columns |-> df.columns \cup {col},
     rows |-> [i \in 1..NRows(df) |-> Put(df.rows[i], col, Eval(col, df.rows[i]))]]

\* The statements from the n-th on; df['x'] of a column the table lacks raises
\* KeyError and leaves the table as the statements before it made it.
RECURSIVE Exec(_, _)
Exec(df, n) ==
    IF n > Len(Statements) THEN [df |-> df, raised |-> "none"]
    ELSE IF ~(Statements[n].reads \subseteq df.columns) THEN [df |-> df, raised |-> "KeyError"]
    ELSE Exec(Assign(df, Statements[n].col), n + 1)

RECURSIVE SumCol(_, _, _)
SumCol(df, col, n) == IF n = 0 THEN 0 ELSE df.rows[n][col] + SumCol(df, col, n - 1)

\* Series.mean(): NaN for a column without rows.
Mean(df, col) == IF NRows(df) = 0 THEN NaN ELSE Frac(SumCol(df, col, NRows(df)), NRows(df))

\* Lines 48-54
TeamAvg(df) ==
    [Technical |-> Mean(df, "Tech_Score"),
     Tactical |-> Mean(df, "Tact_Score"),
     Physical |-> Mean(df, "Phys_Score"),
     Mental |-> Mean(df, "Ment_Score"),
     TPI |-> Mean(df, "TPI")]

\* The call: the content the argument's object is left with, what is returned, what is raised.
calculate_analytics(df) ==
    LET e == Exec(Coerce(df), 1)
    IN  IF e.raised = "none"
        THEN [df |-> e.df, team_avg |-> TeamAvg(e.df), raised |-> "none"]
        ELSE [df |-> e.df, team_avg |-> Unbound, raised |-> e.raised]

----------------------------------------------------------------------------
(* The input tables *)

SubMetrics == <<"pass_accuracy", "dribble_success", "interceptions", "positioning_rating",
                "sprint_speed", "stamina", "composure", "big_game_impact">>
SubMetricSet == {SubMetrics[i] : i \in 1..Len(SubMetrics)}

CsvColumns == SubMetricSet \cup {"player_name", "club", "age", "contract_end_year", "market_value"}

Index(s, x) == CHOOSE i \in 1..Len(s) : s[i] = x

MkRow(name, club, prof, age, cey) ==
    [c \in CsvColumns |->
        CASE c = "player_name" -> name
          [] c = "club" -> club
          [] c = "age" -> age
          [] c = "contract_end_year" -> cey
          [] c = "market_value" -> Num(1000)
          [] OTHER -> prof[Index(SubMetrics, c)]]

ExampleProfile == <<Num(80), Num(60), Num(4), Num(70), Num(30), Num(80), Num(75), Num(60)>>
MissingProfile == [i \in 1..Len(SubMetrics) |-> NaNCell]
MixedProfile == <<Str(80), Txt, Num(4), Str(70), Num(30), NaNCell, Num(75), Num(60)>>

\* Rows of the main specification: every name with every profile and club; the
\* profile fixes how age and contract_end_year are written.
RowKinds ==
    { MkRow(n, c, p[1], p[2], p[3]) :
        n \in {"A", "B", NA}, c \in {"X", "Y"},
        p \in { <<ExampleProfile, Num(20), Num(2028)>>,
                <<MissingProfile, NaNCell, NaNCell>>,
                <<MixedProfile, Txt, Str(2027)>> } }
    \cup { MkRow("B", NA, ExampleProfile, Num(30), Num(2027)) }

SeqsUpTo(S, n) == UNION { [1..m -> S] : m \in 0..n }

Table(columns, rows) ==
    [columns |-> columns, rows |-> [i \in 1..Len(rows) |-> [c \in columns |-> rows[i][c]]]]

\* A file may lack any one of the columns the formulas read.
Droppable == SubMetricSet \cup {"age", "contract_end_year"}
ColumnSets == {CsvColumns} \cup { CsvColumns \ {c} : c \in Droppable }

Tables == { Table(cs, rows) : cs \in ColumnSets, rows \in SeqsUpTo(RowKinds, MaxRows) }

----------------------------------------------------------------------------
(* The script *)

Start(t) ==
    /\ pc = "loaded"
    /\ csv = t
    /\ df_raw = t
    /\ team_avg = Unbound
    /\ out1 = Unbound
    /\ target = NA
    /\ sugs = <<>>
    /\ xi_avg = NaN
    /\ opp_avg = NaN
    /\ win_prob = NaN

Init == \E t \in Tables : Start(t)

\* Line 74: df, team_avg = calculate_analytics(df_raw)
Calculate ==
    /\ pc = "loaded"
    /\ LET r == calculate_analytics(df_raw)
       IN  /\ df_raw' = r.df
           /\ team_avg' = r.team_avg
           /\ out1' = IF r.raised = "none" THEN [df |-> r.df, team_avg |-> r.team_avg] ELSE Unbound
           /\ pc' = IF r.raised = "none" THEN "tab1" ELSE r.raised
    /\ UNCHANGED <<csv, target, sugs, xi_avg, opp_avg, win_prob>>

\* Series.unique(): the distinct values, NaN among them.
Unique(df, col) == {df.rows[i][col] : i \in 1..NRows(df)}

\* st.selectbox(options): the user picks any option; None when there is none.
Selectable(options) == IF options = {} THEN {NA} ELSE options

\* ==, != and isin on a column of names: NaN (and None) equals nothing under ==,
\* differs from everything under !=, and isin matches NaN with NaN.
Eq(a, b) == a # NA /\ b # NA /\ a = b
Ne(a, b) == ~Eq(a, b)
IsIn(a, S) == a \in S

\* df[df[col] == x]: the positions of the rows selected, in table order.
Where(df, col, x) == {i \in 1..NRows(df) : Eq(df.rows[i][col], x)}

SetMin(S) == CHOOSE x \in S : \A y \in S : x <= y

\* The positions in S in increasing order.
RECURSIVE Ordered(_)
Ordered(S) == IF S = {} THEN <<>> ELSE <<SetMin(S)>> \o Ordered(S \ {SetMin(S)})

\* head that returns every row.
head_all(s, n) == s

\* DataFrame.head(n)
head(s, n) == SubSeq(s, 1, Min(n, Len(s)))

\* Lines 79-80: the profile of the selected player; .iloc[0] of an empty selection
\* raises IndexError.
Tab1Profile ==
    /\ pc = "tab1"
    /\ \E p_name \in Selectable(Unique(df_raw, "player_name")) :
          pc' = IF Where(df_raw, "player_name", p_name) = {} THEN "IndexError" ELSE "tab2"
    /\ UNCHANGED <<csv, df_raw, team_avg, out1, target, sugs, xi_avg, opp_avg, win_prob>>

\* Lines 102-112: the comparison chart; the second selectbox starts at index 1.
\* Tab 3 (lines 119-124) reads the table and draws; it changes nothing.
Tab2Comparison ==
    /\ pc = "tab2"
    /\ LET names == Unique(df_raw, "player_name")
       IN  \E p1 \in Selectable(names), compare_on \in BOOLEAN, p2 \in Selectable(names) :
              pc' = IF Where(df_raw, "player_name", p1) = {} THEN "IndexError"
                    ELSE IF ~compare_on THEN "tab4"
                    ELSE IF Cardinality(names) < 2 THEN "StreamlitAPIException"
                    ELSE IF Where(df_raw, "player_name", p2) = {} THEN "IndexError"
                    ELSE "tab4"
    /\ UNCHANGED <<csv, df_raw, team_avg, out1, target, sugs, xi_avg, opp_avg, win_prob>>

SuggestionLimit == 3
TpiMargin == 10

\* Line 132: the rows whose contract ends within a year.
AtRisk(df) == {i \in 1..NRows(df) : df.rows[i]["Years_Left"] <= 1}

\* Line 135: the first row that carries the target's name.
TData(df, t) == df.rows[SetMin(Where(df, "player_name", t))]

\* Line 136: the rows another player could be replaced by, in table order.
Qualifies(df, t, i) ==
    /\ Ne(df.rows[i]["player_name"], t)
    /\ df.rows[i]["TPI"] >= TData(df, t)["TPI"] - TpiMargin * 1000
    /\ df.rows[i]["Years_Left"] > 1

Suggestions(df, t) ==
    head(Ordered({i \in 1..NRows(df) : Qualifies(df, t, i)}), SuggestionLimit)

\* Lines 132-140
Tab4Suggester ==
    /\ pc = "tab4"
    /\ IF AtRisk(df_raw) = {}
       THEN /\ pc' = "tab5"
            /\ UNCHANGED <<target, sugs>>
       ELSE \E t \in {df_raw.rows[i]["player_name"] : i \in AtRisk(df_raw)} :
               IF Where(df_raw, "player_name", t) = {}
               THEN /\ pc' = "IndexError"
                    /\ target' = t
                    /\ UNCHANGED sugs
               ELSE /\ pc' = "tab5"
                    /\ target' = t
                    /\ sugs' = Suggestions(df_raw, t)
    /\ UNCHANGED <<csv, df_raw, team_avg, out1, xi_avg, opp_avg, win_prob>>

MaxSelections == 11

RECURSIVE SumOver(_, _, _)
SumOver(df, col, S) ==
    IF S = {} THEN 0 ELSE df.rows[SetMin(S)][col] + SumOver(df, col, S \ {SetMin(S)})

\* The mean of a column over a selection of rows.
MeanOver(df, col, S) ==
    IF S = {} THEN NaN ELSE Frac(SumOver(df, col, S), Cardinality(S))

\* The difference taken the other way round.
WinProb_reversed(a, b) ==
    IF a.nan \/ b.nan THEN Frac(95000, 1)
    ELSE Frac(Max(5000 * a.den * b.den,
                  Min(95000 * a.den * b.den,
                      50000 * a.den * b.den + 3 * (b.num * a.den - a.num * b.den))),
              a.den * b.den)

\* Lines 160-161: max(5, min(95, 50 + 3 * (a - b))); with a NaN difference Python's
\* min(95, nan) is 95.
WinProb(a, b) ==
    IF a.nan \/ b.nan THEN Frac(95000, 1)
    ELSE Frac(Max(5000 * a.den * b.den,
                  Min(95000 * a.den * b.den,
                      50000 * a.den * b.den + 3 * (a.num * b.den - b.num * a.den))),
              a.den * b.den)

\* Lines 149-163
Tab5MatchDay ==
    /\ pc = "tab5"
    /\ \E starting_xi \in SUBSET Unique(df_raw, "player_name") :
          /\ Cardinality(starting_xi) <= MaxSelections
          /\ IF starting_xi = {}
             THEN UNCHANGED <<xi_avg, opp_avg, win_prob>>
             ELSE \E opponent \in Selectable(Unique(df_raw, "club")) :
                     LET xi == {i \in 1..NRows(df_raw) :
                                   IsIn(df_raw.rows[i]["player_name"], starting_xi)}
                         a == MeanOver(df_raw, "TPI", xi)
                         b == MeanOver(df_raw, "TPI", Where(df_raw, "club", opponent))
                     IN  /\ xi_avg' = a
                         /\ opp_avg' = b
                         /\ win_prob' = WinProb(a, b)
    /\ pc' = "done"
    /\ UNCHANGED <<csv, df_raw, team_avg, out1, target, sugs>>

\* A second call on the table the first call returned.
Recalculate ==
    /\ pc = "tab1"
    /\ LET r == calculate_analytics(df_raw)
       IN  /\ df_raw' = r.df
           /\ team_avg' = r.team_avg
           /\ pc' = IF r.raised = "none" THEN "recalculated" ELSE r.raised
    /\ UNCHANGED <<csv, out1, target, sugs, xi_avg, opp_avg, win_prob>>

\* Streamlit runs the script again from the top: the file is read anew.
Rerun ==
    /\ pc \in {"done", "recalculated", "KeyError", "IndexError", "StreamlitAPIException"}
    /\ pc' = "loaded"
    /\ df_raw' = csv
    /\ team_avg' = Unbound
    /\ out1' = Unbound
    /\ target' = NA
    /\ sugs' = <<>>
    /\ xi_avg' = NaN
    /\ opp_avg' = NaN
    /\ win_prob' = NaN
    /\ UNCHANGED csv

Next ==
    \/ Calculate
    \/ Tab1Profile
    \/ Tab2Comparison
    \/ Tab4Suggester
    \/ Tab5MatchDay
    \/ Recalculate
    \/ Rerun

Spec == Init /\ [][Next]_vars

----------------------------------------------------------------------------
(* Single rows with every sub-metric numeric: each sub-metric and the age range *)
(* independently over zero, the value of the worked example, and an extreme.   *)

NumericProfiles ==
    { <<Num(a), Num(b), Num(c), Num(d), Num(e), Num(f), Num(g), Num(h)>> :
        a \in {0, 80, 1000}, b \in {0, 60, 1000}, c \in {0, 4, 190}, d \in {0, 70, 100},
        e \in {0, 30, 490}, f \in {0, 80, 100}, g \in {0, 75, 1000}, h \in {0, 60, 1000} }

NumericRows ==
    { MkRow("A", "X", p, Num(age), Num(2027)) : p \in NumericProfiles, age \in {0, 20, 200} }

InitRow == \E r \in NumericRows : Start(Table(CsvColumns, <<r>>))

SpecRow == InitRow /\ [][Next]_vars

----------------------------------------------------------------------------
(* Squads for the replacement suggester: rows that differ in name, TPI and   *)
(* contract end; pass_accuracy alone sets the TPI (0.21 per point).          *)

PassOnly(n) == <<Num(n), Num(0), Num(0), Num(0), Num(0), Num(0), Num(0), Num(0)>>

SquadRows ==
    { MkRow("A", "X", PassOnly(50), Num(30), Num(2027)),
      MkRow("A", "X", PassOnly(100), Num(30), Num(2028)),
      MkRow("B", "X", PassOnly(50), Num(30), Num(2028)),
      MkRow("B", "X", PassOnly(100), Num(30), Num(2028)),
      MkRow(NA, "X", PassOnly(100), Num(30), Num(2028)) }

InitSug == \E rows \in SeqsUpTo(SquadRows, MaxSugRows) : Start(Table(CsvColumns, rows))

SpecSug == InitSug /\ [][Next]_vars

----------------------------------------------------------------------------
(* Properties *)

\* The first call of calculate_analytics has returned.
Returned == pc \in {"tab1", "tab2", "tab4", "tab5", "done", "recalculated",
                    "IndexError", "StreamlitAPIException"}

AllNumeric(r) == \A c \in SubMetricSet : r[c].k = "num"
AllMissing(r) == \A c \in SubMetricSet : r[c].k \in {"nan", "txt"}

IsExampleRow(r) == \A i \in 1..Len(SubMetrics) : r[SubMetrics[i]] = ExampleProfile[i]

\* C1: for every row of the file whose eight sub-metrics are all numbers, the
\* enriched row holds Tech_Score = 0.6*pass_accuracy + 0.4*dribble_success,
\* Tact_Score = 5*interceptions + 0.5*positioning_rating, Phys_Score =
\* 2*sprint_speed + 0.2*stamina, Ment_Score = 0.7*composure + 0.3*big_game_impact
\* and TPI = 0.35*Tech + 0.25*Tact + 0.25*Phys + 0.15*Ment, a function of the eight
\* sub-metrics alone; the row 80, 60, 4, 70, 30, 80, 75, 60 yields 72, 55, 76, 70.5
\* and 68.525.
C1_PillarFormulas ==
    Returned =>
        \A i \in 1..NRows(csv) :
            LET in == csv.rows[i]
                r == out1.df.rows[i]
            IN  AllNumeric(in) =>
                  /\ r["Tech_Score"] = 6 * in["pass_accuracy"].v + 4 * in["dribble_success"].v
                  /\ r["Tact_Score"] = 50 * in["interceptions"].v + 5 * in["positioning_rating"].v
                  /\ r["Phys_Score"] = 20 * in["sprint_speed"].v + 2 * in["stamina"].v
                  /\ r["Ment_Score"] = 7 * in["composure"].v + 3 * in["big_game_impact"].v
                  /\ r["TPI"] = 35 * (6 * in["pass_accuracy"].v + 4 * in["dribble_success"].v)
                                + 25 * (50 * in["interceptions"].v + 5 * in["positioning_rating"].v)
                                + 25 * (20 * in["sprint_speed"].v + 2 * in["stamina"].v)
                                + 15 * (7 * in["composure"].v + 3 * in["big_game_impact"].v)
                  /\ IsExampleRow(in) =>
                        /\ r["Tech_Score"] = 720
                        /\ r["Tact_Score"] = 550
                        /\ r["Phys_Score"] = 760
                        /\ r["Ment_Score"] = 705
                        /\ r["TPI"] = 68525

\* C1 witness: the worked example has been enriched.
C1_Witness ==
    /\ Returned
    /\ \E i \in 1..NRows(csv) : IsExampleRow(csv.rows[i]) /\ out1.df.rows[i]["TPI"] = 68525

\* C2: after the call every row's Transfer_Prob is (0.6*TPI + 2*(35 - age)) / 100
\* clipped to [0, 0.95].
C2_TransferProbClipped ==
    Returned =>
        \A i \in 1..NRows(out1.df) :
            LET r == out1.df.rows[i]
                raw == 6 * r["TPI"] + 20000 * (35 - r["age"].v)
            IN  /\ r["Transfer_Prob"] >= 0
                /\ r["Transfer_Prob"] <= 950000
                /\ (raw < 0 => r["Transfer_Prob"] = 0)
                /\ (raw > 950000 => r["Transfer_Prob"] = 950000)
                /\ (raw >= 0 /\ raw <= 950000 => r["Transfer_Prob"] = raw)

\* C2 witness: a row with TPI 1000 and age 0 has been clipped to 0.95.
C2_Witness ==
    /\ Returned
    /\ \E i \in 1..NRows(out1.df) :
          /\ out1.df.rows[i]["TPI"] = 1000000
          /\ out1.df.rows[i]["age"].v = 0
          /\ out1.df.rows[i]["Transfer_Prob"] = 950000

\* C3: the displayed win probability is 50 + 3*(A - B) clipped to [5, 95], for the
\* mean TPI A of the starting XI and B of the opponent club; it is 50 when A = B.
C3_WinProbClipped ==
    (pc = "done" /\ ~xi_avg.nan /\ ~opp_avg.nan) =>
        LET d == xi_avg.den * opp_avg.den
            raw == 50000 * d + 3 * (xi_avg.num * opp_avg.den - opp_avg.num * xi_avg.den)
        IN  /\ ~win_prob.nan
            /\ win_prob.den = d
            /\ win_prob.num >= 5000 * d
            /\ win_prob.num <= 95000 * d
            /\ (raw < 5000 * d => win_prob.num = 5000 * d)
            /\ (raw > 95000 * d => win_prob.num = 95000 * d)
            /\ (raw >= 5000 * d /\ raw <= 95000 * d => win_prob.num = raw)
            /\ (xi_avg.num * opp_avg.den = opp_avg.num * xi_avg.den => win_prob.num = 50000 * d)

\* C3 witness: a win probability strictly between 50 and 95 has been displayed.
C3_Witness ==
    /\ pc = "done"
    /\ ~xi_avg.nan
    /\ ~opp_avg.nan
    /\ win_prob.num > 50000 * win_prob.den
    /\ win_prob.num < 95000 * win_prob.den

\* C4 as stated: a row whose eight sub-metrics are all missing or non-numeric
\* yields Technical 50, Tactical 50, Physical 60, Mental 64 and TPI 54.6.
C4_FixedDefaults ==
    Returned =>
        \A i \in 1..NRows(csv) :
            AllMissing(csv.rows[i]) =>
                /\ out1.df.rows[i]["Tech_Score"] = 500
                /\ out1.df.rows[i]["Tact_Score"] = 500
                /\ out1.df.rows[i]["Phys_Score"] = 600
                /\ out1.df.rows[i]["Ment_Score"] = 640
                /\ out1.df.rows[i]["TPI"] = 54600

\* C4 amended: once the call has run, a value of a listed column the file has that
\* was missing or non-numeric is 0, and a row whose eight sub-metrics were all
\* missing or non-numeric yields Technical 0, Tactical 0, Physical 0, Mental 0, TPI 0.
C4_ZeroFill ==
    /\ pc # "loaded" =>
          \A i \in 1..NRows(csv) : \A c \in ColSet \cap csv.columns :
              csv.rows[i][c].k \in {"nan", "txt"} => df_raw.rows[i][c] = Num(0)
    /\ Returned =>
          \A i \in 1..NRows(csv) :
              AllMissing(csv.rows[i]) =>
                  /\ out1.df.rows[i]["Tech_Score"] = 0
                  /\ out1.df.rows[i]["Tact_Score"] = 0
                  /\ out1.df.rows[i]["Phys_Score"] = 0
                  /\ out1.df.rows[i]["Ment_Score"] = 0
                  /\ out1.df.rows[i]["TPI"] = 0

\* C4 witness: a row missing all eight sub-metrics has been enriched.
C4_Witness ==
    /\ Returned
    /\ \E i \in 1..NRows(csv) :
          /\ \A c \in SubMetricSet : csv.rows[i][c].k = "nan"
          /\ out1.df.rows[i]["TPI"] = 0

\* C5 as stated: with a sub-metric column (or age, contract_end_year) absent from
\* the file, the call still completes and every row has its four scores and TPI.
C5_AbsentColumnTolerated ==
    (pc # "loaded" /\ NRows(csv) > 0) =>
        /\ pc # "KeyError"
        /\ {"Tech_Score", "Tact_Score", "Phys_Score", "Ment_Score", "TPI"} \subseteq df_raw.columns

\* C6 as stated: after the call the table passed in holds the columns and the
\* cells it held before the call.
C6_ArgumentUntouched ==
    (Returned /\ NRows(csv) > 0) => df_raw = csv

\* C7: a second call on the table the first call returned leaves the table and
\* the team averages as the first call returned them.
C7_Idempotent ==
    pc = "recalculated" => df_raw = out1.df /\ team_avg = out1.team_avg

\* C7 witness: the second call has run on a table with rows, whose file had cells
\* to coerce.
C7_Witness ==
    /\ pc = "recalculated"
    /\ \E i \in 1..NRows(csv) : \E c \in SubMetricSet : csv.rows[i][c].k \in {"str", "txt"}
    /\ \E i \in 1..NRows(df_raw) : df_raw.rows[i]["TPI"] > 0

\* The rows of the file that carry a name, in file order.
Named(df) == Ordered({i \in 1..NRows(df) : df.rows[i]["player_name"] # NA})

\* C8 as stated: a row without player_name is left out of the enriched table and
\* the call does not fail; the rows that carry a name are all there, in order.
C8_NamelessRowDropped ==
    Returned =>
        /\ \A i \in 1..NRows(out1.df) : out1.df.rows[i]["player_name"] # NA
        /\ NRows(out1.df) = Len(Named(csv))
        /\ \A k \in 1..Min(NRows(out1.df), Len(Named(csv))) :
              out1.df.rows[k]["player_name"] = csv.rows[Named(csv)[k]]["player_name"]

\* C9 as stated: the team average of a table without rows is the empty mapping;
\* of a table with rows it maps each pillar and TPI to the mean of its column.
C9_EmptyTableEmptyMapping ==
    Returned =>
        /\ NRows(out1.df) = 0 => DOMAIN out1.team_avg = {}
        /\ NRows(out1.df) > 0 =>
              /\ DOMAIN out1.team_avg = {"Technical", "Tactical", "Physical", "Mental", "TPI"}
              /\ \A k \in DOMAIN out1.team_avg : ~out1.team_avg[k].nan

\* The rows a suggestion may name, for the target shown.
C10_FirstTpi == df_raw.rows[SetMin({i \in 1..NRows(df_raw) : df_raw.rows[i]["player_name"] = target})]["TPI"]
C10_Ok(i) ==
    /\ df_raw.rows[i]["player_name"] # target
    /\ df_raw.rows[i]["TPI"] >= C10_FirstTpi - 10000
    /\ df_raw.rows[i]["Years_Left"] > 1

\* C10: the target is the name of a row with Years_Left <= 1; every suggested row
\* has another name, a TPI of at least the TPI of the first row with the target's
\* name minus 10, and Years_Left > 1; at most 3 rows are suggested, the first
\* qualifying ones in table order.
C10_Suggestions ==
    (pc \in {"tab5", "done"} /\ target # NA) =>
        /\ \E i \in 1..NRows(df_raw) :
              df_raw.rows[i]["player_name"] = target /\ df_raw.rows[i]["Years_Left"] <= 1
        /\ Len(sugs) <= 3
        /\ \A k \in 1..Len(sugs) : sugs[k] \in 1..NRows(df_raw) /\ C10_Ok(sugs[k])
        /\ \A k \in 1..(Len(sugs) - 1) : sugs[k] < sugs[k + 1]
        /\ \A j \in 1..NRows(df_raw) :
              (C10_Ok(j) /\ \A k \in 1..Len(sugs) : sugs[k] # j) =>
                  Len(sugs) = 3 /\ j > sugs[3]

\* C10 witness: three rows are suggested and a qualifying row left out has a
\* higher TPI than each of them.
C10_Witness ==
    /\ pc \in {"tab5", "done"}
    /\ target # NA
    /\ Len(sugs) = 3
    /\ \E j \in 1..NRows(df_raw) :
          /\ C10_Ok(j)
          /\ \A k \in 1..3 : sugs[k] # j /\ df_raw.rows[j]["TPI"] > df_raw.rows[sugs[k]]["TPI"]

====
